---------------------------- MODULE Spec2Model ----------------------------
(***************************************************************************)
(* A model of proc_module.c: a /proc entry backed by a list of chunks      *)
(* (struct proc_entry_list), a running byte count (proc_entry_list_size)   *)
(* and a reader-writer spinlock (proc_entry_list_rwlock).                  *)
(*                                                                         *)
(* Every caller is a thread holding one open file; offset[t] is the file   *)
(* position the kernel hands to the handlers as *offset.  A handler is cut *)
(* into steps where another thread can observe it or interleave with it:   *)
(* the lock operations and the accesses to the list and to the size.  The  *)
(* part of write_proc_module that runs before write_lock touches only      *)
(* memory private to the call and is one step.                             *)
(*                                                                         *)
(* What the environment decides for a call is fixed when the call is made: *)
(* valid, the number of bytes of usrbuf user space lets the kernel access  *)
(* (copy_to_user and copy_from_user stop there), and mem, the number of    *)
(* allocations that succeed.                                               *)
(*                                                                         *)
(* Integers: loff_t is signed and size_t unsigned, both WordBits wide (the *)
(* LP64 build, scaled down).  A comparison between a loff_t and a size_t   *)
(* is done after converting both to the unsigned type, as C does.          *)
(*                                                                         *)
(* The specifications run the same handlers.  SpecSeq has one caller and   *)
(* draws every argument and every fault; Spec has NThreads callers that    *)
(* append whole payloads and read sequentially, in any interleaving.       *)
(* SpecTwice is one caller whose last read is kept, to compare a repeated  *)
(* read with.  SpecLoad starts where init_proc_module is entered, with the *)
(* statics zeroed, and goes through its lines.  SpecDrain and SpecLive are *)
(* normal operation (no unloading) under fair scheduling and the kernel's  *)
(* queued rwlock: callers that drain the file, and callers whose reads     *)
(* succeed, fail or find nothing.                                          *)
(***************************************************************************)
EXTENDS Integers, Sequences, FiniteSets, TLC

\* ----------------------------------------------------------------- bounds
NThreads == 2
MaxLen == 2
MaxWrites == 2
WordBits == 5

\* -------------------------------------------------------------- constants
EINVAL == 22
ENOMEM == 12
EFAULT == 14

Threads == 1..NThreads
Exiter == 0
NoOwner == -1

RECURSIVE Pow2(_)
Pow2(n) == IF n = 0 THEN 1 ELSE 2 * Pow2(n - 1)

SizeMod == Pow2(WordBits)
LoffMax == Pow2(WordBits - 1) - 1
LoffMin == 0 - Pow2(WordBits - 1)

\* conversion of a signed value to size_t (unsigned, modulo 2^WordBits)
ToSizeT(x) == x % SizeMod
\* conversion of an unsigned value to loff_t / ssize_t (two's complement)
ToLoff(x) == LET u == x % SizeMod IN IF u > LoffMax THEN u - SizeMod ELSE u

Min(a, b) == IF a < b THEN a ELSE b

MaxTotal == MaxWrites * MaxLen

\* the bytes user space holds for the id-th write call: all distinct
UserBuf(id, n) == [j \in 1..n |-> id * 10 + j]

Prefix(s, k) == SubSeq(s, 1, k)

NoEntry == [buf |-> << >>, buf_size |-> 0]
\* no read remembered, in a run that keeps them and in a run that does not
NoLast == [watch |-> TRUE, set |-> FALSE, off |-> 0, length |-> 0,
           valid |-> 0, ret |-> 0, out |-> << >>]
Unwatched == [NoLast EXCEPT !.watch = FALSE]

NoHeap == [entry |-> 0, buf |-> 0]
NoCall == [op |-> "none", length |-> 0, off |-> 0, id |-> 0, valid |-> 0,
           mem |-> 0]

\* the arguments of a call: op(length, off) under the environment (valid, mem)
Args(O, L, V, M) == [off : O, length : L, valid : V, mem : M]

\* SpecSeq: every offset around the stored range, every length up to one
\* more than the longest chunk, every fault
SeqReadArgs(t) ==
    Args((-1)..MaxTotal \cup {LoffMin}, 0..(MaxLen + 1), 0..(MaxLen + 1), {0})
SeqWriteArgs(t) ==
    { a \in Args({LoffMin, -1, 0, LoffMax}, 0..MaxLen, 0..MaxLen, 0..3) :
        a.valid <= a.length }

VARIABLES
    list,       \* proc_entry_list_head: the linked entries, head first
    size,       \* proc_entry_list_size
    heap,       \* the allocations the list owns: entries and their buffers
    wlock,      \* proc_entry_list_rwlock: the holder of the write side
    rlock,      \* proc_entry_list_rwlock: the holders of the read side
    exposed,    \* proc_entry is registered: the handlers can be entered
    xpc,        \* position of exit_proc_module
    pc,         \* position of each thread inside its handler
    call,       \* the arguments and the environment of the call in progress
    offset,     \* *offset, the file position of the thread's open file
    retval,     \* retval / errval / the returned count
    out,        \* the bytes copy_to_user delivered into usrbuf
    new_entry,  \* write: the entry being built
    alloc,      \* write: the allocations the call holds and has not linked
    nwrites,    \* number of write calls issued so far
    took,       \* history: the call in progress has taken the lock
    hist,       \* history: the appends that returned a count
    rel,        \* history: the chunks whose exclusive section was released
    last,       \* history: the read each thread made last, where it is kept
    draining,   \* history: the thread reads sequentially from offset 0
    acc         \* history: what the sequential reads have returned so far

vars == << list, size, heap, wlock, rlock, exposed, xpc, pc, call, offset, retval,
           out, new_entry, alloc, nwrites, took, hist, rel, last,
           draining, acc >>

lockv == << wlock, rlock >>
storev == << list, size, heap >>
exitv == << exposed, xpc >>
wlocals == << new_entry, alloc >>
histv == << hist, rel, last >>
drainv == << draining, acc >>

\* --------------------------------------------------------------- helpers
RECURSIVE Flat(_)
Flat(bs) == IF bs = << >> THEN << >> ELSE Head(bs) \o Flat(Tail(bs))

RECURSIVE SumSizes(_)
SumSizes(l) == IF l = << >> THEN 0 ELSE Head(l).buf_size + SumSizes(Tail(l))

Bufs(l) == [i \in 1..Len(l) |-> l[i].buf]

InWrite(t) == call[t].op = "write"
InRead(t) == call[t].op = "read"

\* Spec: a thread reads sequentially (from 0, or on from where it is), asking
\* for more than a chunk holds, and appends whole payloads whose length goes
\* with the number of the call
ConcReadArgs(t) == Args({0, offset[t]}, {MaxLen + 1}, {MaxLen + 1}, {0})
ConcWriteArgs(t) == Args({0}, {(nwrites % MaxLen) + 1}, {MaxLen}, {3})

\* After a call has returned: a thread that reads sequentially keeps its
\* file open, any other thread closes it and opens the file anew (position
\* 0, nothing read yet).
Reopen(t) ==
    /\ offset' = [offset EXCEPT ![t] = IF draining[t] THEN @ ELSE 0]
    /\ draining' = [draining EXCEPT ![t] = TRUE]
    /\ acc' = [acc EXCEPT ![t] = IF draining[t] THEN @ ELSE << >>]

\* ------------------------------------------------------------- the rwlock
\* a write_lock that does not wait for the readers to leave
CanWriteLockIgnoringReaders == wlock = NoOwner

\* read_lock spins while a writer holds the lock
CanReadLock == wlock = NoOwner
\* write_lock spins while a writer or any reader holds the lock
CanWriteLock == wlock = NoOwner /\ rlock = {}

Underflow == -2

\* a return that leaves the lock held
ReadUnlockForgotten(r, t) == r

\* read_unlock takes one reader off the count; with no reader counted (the
\* lock was initialised anew under a reader) the count wraps and reads as
\* readers that never leave
ReadUnlock(r, t) == IF t \in r THEN r \ {t} ELSE r \cup {Underflow}

\* ------------------------------------------------------------------ Init
\* the statics as the loader zeroes them (lines 23-33) and the callers idle:
\* until INIT_LIST_HEAD has run (see HeadInit) the empty list stands for a
\* head whose two pointers are NULL
Statics ==
    /\ list = << >>
    /\ size = 0
    /\ heap = NoHeap
    /\ wlock = NoOwner
    /\ rlock = {}
    /\ pc = [t \in Threads |-> "idle"]
    /\ call = [t \in Threads |-> NoCall]
    /\ offset = [t \in Threads |-> 0]
    /\ retval = [t \in Threads |-> 0]
    /\ out = [t \in Threads |-> << >>]
    /\ new_entry = [t \in Threads |-> NoEntry]
    /\ alloc = [t \in Threads |-> {}]
    /\ nwrites = 0
    /\ took = [t \in Threads |-> FALSE]
    /\ hist = {}
    /\ rel = << >>
    /\ draining = [t \in Threads |-> TRUE]
    /\ acc = [t \in Threads |-> << >>]

\* the state init_proc_module leaves behind on success
Loaded == Statics /\ exposed = TRUE /\ xpc = "live"

\* the state in which init_proc_module is entered
InitLoad ==
    /\ Statics
    /\ exposed = FALSE
    /\ xpc = "i_create"
    /\ last = [t \in Threads |-> Unwatched]

Init == Loaded /\ last = [t \in Threads |-> Unwatched]

\* the same state, in a run that keeps each thread's last read to compare
\* the next one with
InitTwice == Loaded /\ last = [t \in Threads |-> NoLast]

\* ------------------------------------------------------- read_proc_module
\* a first test that takes the last byte for the end
RdNoDataOffByOne(length, off, sz) == length = 0 \/ ToSizeT(off) + 1 >= sz

\* the first test without its length == 0 part
RdNoDataLengthUnchecked(length, off, sz) == ToSizeT(off) >= sz

\* line 52, first test: nothing to return.  off is a loff_t and
\* proc_entry_list_size a size_t, so the comparison is made in size_t.
RdNoData(length, off, sz) == length = 0 \/ ToSizeT(off) >= sz

\* line 54, second test: a negative offset
RdBadOffset(off) == off < 0

\* line 62: the number of bytes to copy, bounded by the entry and by length
ReadSize(next_pos, off, length) ==
    IF next_pos - off > length THEN length ELSE next_pos - off

\* an entry taken to cover the offset at which it ends as well
CoversItsEnd(pos, next_pos, off) ==
    pos <= ToSizeT(off) /\ ToSizeT(off) <= next_pos

\* line 61: the entry [pos, next_pos) covers off (compared in size_t)
Covers(pos, next_pos, off) == pos <= ToSizeT(off) /\ ToSizeT(off) < next_pos

\* a scan that goes on from where the read before it stopped
ScanStartCarried(t) == IF last[t].set /\ last[t].ret > 0 THEN last[t].ret ELSE 0

\* line 46: pos = 0, the scan starts at the head of the list
ScanStart(t) == 0

\* lines 59-76: list_for_each_entry, accumulating pos, up to the first
\* entry that covers off
RECURSIVE Locate(_, _, _, _)
Locate(l, i, pos, off) ==
    IF i > Len(l)
    THEN [found |-> FALSE, idx |-> 0, pos |-> pos, next_pos |-> pos]
    ELSE LET next_pos == (pos + l[i].buf_size) % SizeMod
         IN  IF Covers(pos, next_pos, off)
             THEN [found |-> TRUE, idx |-> i, pos |-> pos, next_pos |-> next_pos]
             ELSE Locate(l, i + 1, next_pos, off)

\* line 64: the source of the copy is entry->buf + off - pos
CopySource(buf, off, pos, n) == SubSeq(buf, off - pos + 1, off - pos + n)

\* lines 64, 113: copy_to_user and copy_from_user return the number of bytes
\* they could not copy: those past the accessible part of the user buffer
Uncopied(n, valid) == n - Min(n, valid)

\* a copy that is never taken to have failed
CopyFailedNever(remaining_len, n) == FALSE

\* lines 65, 114: the copy moved no byte at all
CopyFailed(remaining_len, n) == remaining_len = n

\* the read remembered is the read c
SameRead(l, c) ==
    l.set /\ l.off = c.off /\ l.length = c.length /\ l.valid = c.valid
\* the read remembered is dropped
Forget(l) == [l EXCEPT !.set = FALSE, !.off = 0, !.length = 0, !.valid = 0,
                       !.ret = 0, !.out = << >>]

\* a thread enters read_proc_module (lines 42-48) with the file position it
\* has or after seeking
ReadCall(t, A) ==
    /\ exposed
    /\ pc[t] = "idle"
    /\ \E a \in A :
        /\ call' = [call EXCEPT ![t] =
                      [op |-> "read", length |-> a.length, off |-> a.off,
                       id |-> 0, valid |-> a.valid, mem |-> a.mem]]
        /\ offset' = [offset EXCEPT ![t] = a.off]
        /\ draining' = [draining EXCEPT ![t] =
                          a.off = 0 \/ (draining[t] /\ a.off = offset[t])]
        /\ acc' = [acc EXCEPT ![t] =
                     IF draining[t] /\ a.off = offset[t] /\ a.off # 0
                     THEN acc[t] ELSE << >>]
    /\ pc' = [pc EXCEPT ![t] = "rd_lock"]
    /\ retval' = [retval EXCEPT ![t] = 0]
    /\ out' = [out EXCEPT ![t] = << >>]
    /\ took' = [took EXCEPT ![t] = FALSE]
    /\ last' = [last EXCEPT ![t] = IF SameRead(@, call'[t]) THEN @ ELSE Forget(@)]
    /\ UNCHANGED << storev, lockv, exitv, wlocals, nwrites, hist, rel >>

\* line 50: read_lock
RdLock(t) ==
    /\ pc[t] = "rd_lock"
    /\ CanReadLock
    /\ rlock' = rlock \cup {t}
    /\ took' = [took EXCEPT ![t] = TRUE]
    /\ pc' = [pc EXCEPT ![t] = "rd_body"]
    /\ UNCHANGED << storev, wlock, exitv, call, offset, retval, out, wlocals,
                    nwrites, histv, drainv >>

\* lines 52-76, all with the lock held: the argument checks, the scan and
\* the copy to user space
RdBody(t) ==
    /\ pc[t] = "rd_body"
    /\ LET off == call[t].off
           loc == Locate(list, 1, ScanStart(t), off)
           read_size == ReadSize(loc.next_pos, off, call[t].length)
           remaining_len == Uncopied(read_size, call[t].valid)
           actual_size == read_size - remaining_len
           bytes == CopySource(list[loc.idx].buf, off, loc.pos, actual_size)
       IN  IF RdNoData(call[t].length, off, size)              \* 52-53
           THEN UNCHANGED << offset, retval, out, acc >>
           ELSE IF RdBadOffset(off)                             \* 54-57
           THEN /\ retval' = [retval EXCEPT ![t] = 0 - EINVAL]
                /\ UNCHANGED << offset, out, acc >>
           ELSE IF ~loc.found                                   \* 59, 76
           THEN UNCHANGED << offset, retval, out, acc >>
           ELSE IF CopyFailed(remaining_len, read_size)         \* 65-66
           THEN /\ retval' = [retval EXCEPT ![t] = 0 - EFAULT]
                /\ UNCHANGED << offset, out, acc >>
           ELSE /\ offset' = [offset EXCEPT ![t] =             \* 68-70
                                ToLoff(offset[t] + actual_size)]
                /\ retval' = [retval EXCEPT ![t] = actual_size]
                /\ out' = [out EXCEPT ![t] = bytes]
                /\ acc' = [acc EXCEPT ![t] =
                             IF draining[t] THEN acc[t] \o bytes ELSE acc[t]]
    /\ pc' = [pc EXCEPT ![t] = "rd_end"]
    /\ UNCHANGED << storev, lockv, exitv, call, wlocals, nwrites, took, histv,
                    draining >>

\* lines 78-80: read_unlock and return
RdEnd(t) ==
    /\ pc[t] = "rd_end"
    /\ rlock' = ReadUnlock(rlock, t)
    /\ pc' = [pc EXCEPT ![t] = "idle"]
    /\ call' = [call EXCEPT ![t] = NoCall]
    /\ retval' = [retval EXCEPT ![t] = 0]
    /\ out' = [out EXCEPT ![t] = << >>]
    /\ took' = [took EXCEPT ![t] = FALSE]
    /\ Reopen(t)
    /\ last' = [last EXCEPT ![t] =
                  IF @.watch
                  THEN [watch |-> TRUE, set |-> TRUE, off |-> call[t].off,
                        length |-> call[t].length, valid |-> call[t].valid,
                        ret |-> retval[t], out |-> out[t]]
                  ELSE @]
    /\ UNCHANGED << storev, wlock, exitv, wlocals, nwrites, hist, rel >>

\* ------------------------------------------------------ write_proc_module
Zeros(n) == [j \in 1..n |-> 0]

\* lines 107, 113: tmp is zeroed by kzalloc, then copy_from_user stores the
\* part of usrbuf it could copy at its start
CopyFromUser(ubuf, length, remaining_len) ==
    Prefix(ubuf, length - remaining_len) \o Zeros(remaining_len)

\* a chunk buffer that is allocated and never filled from tmp
KmemdupNoCopy(src, n) == Zeros(n)

\* line 122: kmemdup(tmp, actual_size)
Kmemdup(src, n) == Prefix(src, n)

\* a cpy_err that does not release the staging buffer
CpyErrNoFree(held) == held

\* lines 140-141: cpy_err releases the staging buffer and falls through
CpyErr(held) == held \ {"tmp"}

\* lines 142-143: tmp_err releases the entry
TmpErr(held) == held \ {"new_entry"}

\* a write that takes only offset 0
WrOffsetNotZero(off) == off # 0

\* a write that does not test its offset
WrBadOffsetUnchecked(off) == FALSE

\* line 100: a negative offset
WrBadOffset(off) == off < 0

\* a write that does not test its length
WrNoDataUnchecked(length) == FALSE

\* line 98: nothing to append
WrNoData(length) == length = 0

\* a chunk as long as the request, whatever was copied
WrActualSizeRequested(length, remaining_len) == length

\* line 119: actual_size, the number of bytes copy_from_user copied
WrActualSize(length, remaining_len) == length - remaining_len

\* the outcome of lines 98-131 when they end the call
StageRet(errval, held) ==
    [done |-> TRUE, ret |-> errval, entry |-> NoEntry, held |-> held,
     adv |-> 0]

\* lines 98-131: everything write_proc_module does before write_lock.  c is
\* the call; held is what is still allocated, adv the advance of *offset.
Stage(c) ==
    LET remaining_len == Uncopied(c.length, c.valid)
        actual_size == WrActualSize(c.length, remaining_len)
        tmp == CopyFromUser(UserBuf(c.id, c.length), c.length, remaining_len)
    IN  IF WrNoData(c.length) THEN StageRet(0, {})                \* 98-99
        ELSE IF WrBadOffset(c.off) THEN StageRet(0 - EINVAL, {})  \* 100-101
        ELSE IF c.mem < 1 THEN StageRet(0 - ENOMEM, {})           \* 103-105
        ELSE IF c.mem < 2                                         \* 107-111
        THEN StageRet(0 - ENOMEM, TmpErr({"new_entry"}))
        ELSE IF CopyFailed(remaining_len, c.length)               \* 113-117
        THEN StageRet(0 - EFAULT, TmpErr(CpyErr({"new_entry", "tmp"})))
        ELSE IF c.mem < 3                                         \* 122-126
        THEN StageRet(0 - ENOMEM, TmpErr(CpyErr({"new_entry", "tmp"})))
        ELSE [done |-> FALSE, ret |-> 0,                          \* 119-131
              entry |-> [buf |-> Kmemdup(tmp, actual_size),
                         buf_size |-> actual_size],
              held |-> {"new_entry", "tmp", "buf"} \ {"tmp"},
              adv |-> actual_size]

\* list_add in place of list_add_tail: the entry goes to the head
ListAddHead(l, e) == << e >> \o l

\* line 134: list_add_tail
ListAddTail(l, e) == Append(l, e)

\* a size that counts entries, and a size that is never updated
AddSizeOne(sz, n) == (sz + 1) % SizeMod
AddSizeNothing(sz, n) == sz

\* line 135: proc_entry_list_size += actual_size
AddSize(sz, n) == (sz + n) % SizeMod

\* line 134: the entry and its buffer belong to the list once linked
OwnEntry(h) == [entry |-> h.entry + 1, buf |-> h.buf + 1]

\* a thread enters write_proc_module (lines 90-96)
WriteCall(t, A) ==
    /\ exposed
    /\ pc[t] = "idle"
    /\ nwrites < MaxWrites
    /\ nwrites' = nwrites + 1
    /\ \E a \in A :
        /\ call' = [call EXCEPT ![t] =
                      [op |-> "write", length |-> a.length, off |-> a.off,
                       id |-> nwrites + 1, valid |-> a.valid, mem |-> a.mem]]
        /\ offset' = [offset EXCEPT ![t] = a.off]
    /\ pc' = [pc EXCEPT ![t] = "wr_stage"]
    /\ retval' = [retval EXCEPT ![t] = 0]
    /\ out' = [out EXCEPT ![t] = << >>]
    /\ took' = [took EXCEPT ![t] = FALSE]
    /\ draining' = [draining EXCEPT ![t] = FALSE]
    /\ acc' = [acc EXCEPT ![t] = << >>]
    /\ UNCHANGED << storev, lockv, exitv, wlocals, histv >>

\* lines 98-131: the checks, the staging of the caller's bytes, the entry
WrStage(t) ==
    /\ pc[t] = "wr_stage"
    /\ LET st == Stage(call[t])
       IN  /\ retval' = [retval EXCEPT ![t] = st.ret]
           /\ new_entry' = [new_entry EXCEPT ![t] = st.entry]
           /\ alloc' = [alloc EXCEPT ![t] = st.held]
           /\ offset' = [offset EXCEPT ![t] = ToLoff(@ + st.adv)]
           /\ pc' = [pc EXCEPT ![t] = IF st.done THEN "wr_ret" ELSE "wr_lock"]
    /\ UNCHANGED << storev, lockv, exitv, call, out, nwrites, took, histv,
                    drainv >>

\* line 133: write_lock
WrLock(t) ==
    /\ pc[t] = "wr_lock"
    /\ CanWriteLock
    /\ wlock' = t
    /\ took' = [took EXCEPT ![t] = TRUE]
    /\ pc' = [pc EXCEPT ![t] = "wr_link"]
    /\ UNCHANGED << storev, rlock, exitv, call, offset, retval, out, wlocals,
                    nwrites, histv, drainv >>

\* INIT_LIST_HEAD (line 163) has run: the head points to itself
HeadInit == xpc \notin {"i_create", "i_list"}

\* list_add_tail on a head whose pointers are NULL writes through NULL: the
\* thread dies where it is, or, in a build that checks its lists, the add is
\* reported and left out
NullHeadOutcomes == {"oops", "skipped"}

\* line 134: list_add_tail; the list owns the entry and its buffer from here
WrLink(t) ==
    /\ pc[t] = "wr_link"
    /\ IF HeadInit
       THEN /\ list' = ListAddTail(list, new_entry[t])
            /\ heap' = OwnEntry(heap)
            /\ alloc' = [alloc EXCEPT ![t] = @ \ {"new_entry", "buf"}]
            /\ pc' = [pc EXCEPT ![t] = "wr_size"]
            /\ last' = [u \in Threads |-> Forget(last[u])]
       ELSE /\ \E o \in NullHeadOutcomes :
                 pc' = [pc EXCEPT ![t] = IF o = "oops" THEN "oops" ELSE "wr_size"]
            /\ UNCHANGED << list, heap, alloc, last >>
    /\ UNCHANGED << size, lockv, exitv, call, offset, retval, out, new_entry,
                    nwrites, took, hist, rel, drainv >>

\* line 135: proc_entry_list_size += actual_size
WrSize(t) ==
    /\ pc[t] = "wr_size"
    /\ size' = AddSize(size, new_entry[t].buf_size)
    /\ pc' = [pc EXCEPT ![t] = "wr_unlock"]
    /\ UNCHANGED << list, heap, lockv, exitv, call, offset, retval, out, wlocals,
                    nwrites, took, histv, drainv >>

\* lines 136-138: write_unlock; the value to return is actual_size
WrUnlock(t) ==
    /\ pc[t] = "wr_unlock"
    /\ wlock' = NoOwner
    /\ retval' = [retval EXCEPT ![t] = new_entry[t].buf_size]
    /\ rel' = Append(rel, new_entry[t].buf)
    /\ pc' = [pc EXCEPT ![t] = "wr_ret"]
    /\ UNCHANGED << storev, rlock, exitv, call, offset, out, wlocals, nwrites,
                    took, hist, last, drainv >>

\* the return of write_proc_module to its caller (lines 99, 101, 105, 138,
\* 144)
WrReturn(t) ==
    /\ pc[t] = "wr_ret"
    /\ hist' = IF retval[t] > 0
               THEN hist \cup {[id |-> call[t].id, length |-> call[t].length,
                                count |-> retval[t]]}
               ELSE hist
    /\ pc' = [pc EXCEPT ![t] = "idle"]
    /\ call' = [call EXCEPT ![t] = NoCall]
    /\ retval' = [retval EXCEPT ![t] = 0]
    /\ new_entry' = [new_entry EXCEPT ![t] = NoEntry]
    /\ took' = [took EXCEPT ![t] = FALSE]
    /\ Reopen(t)
    /\ UNCHANGED << storev, lockv, exitv, out, alloc, nwrites, rel, last >>

\* ------------------------------------------------------- init_proc_module
\* line 156: proc_create registers the entry; from here read and write can
\* be called
ICreate ==
    /\ xpc = "i_create"
    /\ exposed' = TRUE
    /\ xpc' = "i_list"
    /\ UNCHANGED << storev, lockv, pc, call, offset, retval, out, wlocals,
                    nwrites, took, histv, drainv >>

\* lines 156-161: proc_create returns NULL and the module is not loaded
ICreateFails ==
    /\ xpc = "i_create"
    /\ xpc' = "failed"
    /\ UNCHANGED << storev, lockv, exposed, pc, call, offset, retval, out,
                    wlocals, nwrites, took, histv, drainv >>

\* line 163: INIT_LIST_HEAD
IList ==
    /\ xpc = "i_list"
    /\ list' = << >>
    /\ xpc' = "i_size"
    /\ UNCHANGED << size, heap, lockv, exposed, pc, call, offset, retval, out,
                    wlocals, nwrites, took, histv, drainv >>

\* line 164: proc_entry_list_size = 0
ISize ==
    /\ xpc = "i_size"
    /\ size' = 0
    /\ xpc' = "i_lock"
    /\ UNCHANGED << list, heap, lockv, exposed, pc, call, offset, retval, out,
                    wlocals, nwrites, took, histv, drainv >>

\* lines 165-173: rwlock_init sets the lock free, whoever holds it
ILock ==
    /\ xpc = "i_lock"
    /\ wlock' = NoOwner
    /\ rlock' = {}
    /\ xpc' = "live"
    /\ UNCHANGED << storev, exposed, pc, call, offset, retval, out, wlocals,
                    nwrites, took, histv, drainv >>

\* ------------------------------------------------------- exit_proc_module
\* line 186: write_lock
XLock ==
    /\ xpc = "live"
    /\ CanWriteLock
    /\ wlock' = Exiter
    /\ xpc' = "x_loop"
    /\ UNCHANGED << storev, rlock, exposed, pc, call, offset, retval, out,
                    wlocals, nwrites, took, histv, drainv >>

\* a loop body that releases the entry and not its buffer
FreeEntryKeepsBuf(h) == [entry |-> h.entry - 1, buf |-> h.buf]

\* lines 191-192: kfree(tmp->buf) and kfree(tmp)
FreeEntry(h) == [entry |-> h.entry - 1, buf |-> h.buf - 1]

\* lines 188-193: one round of list_for_each_safe: list_del and the two kfree
XDel ==
    /\ xpc = "x_loop"
    /\ list # << >>
    /\ list' = Tail(list)
    /\ heap' = FreeEntry(heap)
    /\ UNCHANGED << size, lockv, exitv, pc, call, offset, retval, out,
                    wlocals, nwrites, took, histv, drainv >>

\* line 194: proc_entry_list_size = 0, once the loop has ended
XSize ==
    /\ xpc = "x_loop"
    /\ list = << >>
    /\ size' = 0
    /\ xpc' = "x_remove"
    /\ UNCHANGED << list, heap, lockv, exposed, pc, call, offset, retval, out,
                    wlocals, nwrites, took, histv, drainv >>

\* lines 196-197: remove_proc_entry first closes the entry to new calls
XRemove ==
    /\ xpc = "x_remove"
    /\ exposed' = FALSE
    /\ xpc' = "x_wait"
    /\ UNCHANGED << storev, lockv, pc, call, offset, retval, out, wlocals,
                    nwrites, took, histv, drainv >>

\* a remove_proc_entry that returns with calls still in progress
XWaitNoDrain ==
    /\ xpc = "x_wait"
    /\ xpc' = "x_unlock"
    /\ UNCHANGED << storev, lockv, exposed, pc, call, offset, retval, out,
                    wlocals, nwrites, took, histv, drainv >>

\* line 197: remove_proc_entry then waits for the calls in progress
XWait ==
    /\ xpc = "x_wait"
    /\ \A t \in Threads : pc[t] = "idle"
    /\ xpc' = "x_unlock"
    /\ UNCHANGED << storev, lockv, exposed, pc, call, offset, retval, out,
                    wlocals, nwrites, took, histv, drainv >>

\* line 199: write_unlock
XUnlock ==
    /\ xpc = "x_unlock"
    /\ wlock' = NoOwner
    /\ xpc' = "unloaded"
    /\ UNCHANGED << storev, rlock, exposed, pc, call, offset, retval, out,
                    wlocals, nwrites, took, histv, drainv >>

\* ---------------------------------------------------------- specification
\* the steps of a call in progress
Step(t) ==
    \/ RdLock(t) \/ RdBody(t) \/ RdEnd(t)
    \/ WrStage(t) \/ WrLock(t) \/ WrLink(t) \/ WrSize(t) \/ WrUnlock(t)
    \/ WrReturn(t)

Unload == XLock \/ XDel \/ XSize \/ XRemove \/ XWait \/ XUnlock

\* NThreads callers, in any interleaving, and the unloading of the module
Next ==
    \/ \E t \in Threads :
        \/ ReadCall(t, ConcReadArgs(t))
        \/ WriteCall(t, ConcWriteArgs(t))
        \/ Step(t)
    \/ Unload

Spec == Init /\ [][Next]_vars

\* one caller, every argument and every fault, and the unloading
NextSeq ==
    \/ \E t \in {1} :
        \/ ReadCall(t, SeqReadArgs(t))
        \/ WriteCall(t, SeqWriteArgs(t))
        \/ Step(t)
    \/ Unload

SpecSeq == Init /\ [][NextSeq]_vars

\* one caller that reads anywhere, with any transfer, and appends whole
\* payloads or fails to; each read is kept to compare the next one with
TwiceWriteArgs(t) == Args({0}, {(nwrites % MaxLen) + 1}, {MaxLen}, {2, 3})

NextTwice ==
    \/ \E t \in {1} :
        \/ ReadCall(t, SeqReadArgs(t))
        \/ WriteCall(t, TwiceWriteArgs(t))
        \/ Step(t)
    \/ Unload

SpecTwice == InitTwice /\ [][NextTwice]_vars

\* normal operation under fair scheduling
\* the kernel's rwlock is queued: a reader that arrives while a writer waits
\* for the lock waits behind it
WriterWaits == \E u \in Threads : pc[u] = "wr_lock"
RdLockQueued(t) == RdLock(t) /\ ~WriterWaits

\* the steps of a call in progress, under the queued lock
StepQueued(t) ==
    \/ RdLockQueued(t) \/ RdBody(t) \/ RdEnd(t)
    \/ WrStage(t) \/ WrLock(t) \/ WrLink(t) \/ WrSize(t) \/ WrUnlock(t)
    \/ WrReturn(t)

\* callers that append whole payloads and drain the file: each keeps its
\* file open and reads on from where it is, asking for more than a chunk
\* holds
DrainReadArgs(t) == Args({offset[t]}, {MaxLen + 1}, {MaxLen + 1}, {0})

NextDrain ==
    \E t \in Threads :
        \/ ReadCall(t, DrainReadArgs(t))
        \/ WriteCall(t, ConcWriteArgs(t))
        \/ StepQueued(t)

\* a call in progress is run to its end, the lock goes to a thread that
\* waits for it, and a caller that has nothing else to do reads on
SpecDrain ==
    /\ Init
    /\ [][NextDrain]_vars
    /\ \A t \in Threads : WF_vars(StepQueued(t) \/ ReadCall(t, DrainReadArgs(t)))

\* callers that append whole payloads and read at the start of the file,
\* into a buffer that can be written to or not
LiveReadArgs(t) == Args({0}, {MaxLen + 1}, {0, MaxLen + 1}, {0})

NextLive ==
    \E t \in Threads :
        \/ ReadCall(t, LiveReadArgs(t))
        \/ WriteCall(t, ConcWriteArgs(t))
        \/ StepQueued(t)

\* a call in progress is run to its end and the lock goes to a thread that
\* waits for it
SpecLive ==
    /\ Init
    /\ [][NextLive]_vars
    /\ \A t \in Threads : WF_vars(StepQueued(t))

Load == ICreate \/ ICreateFails \/ IList \/ ISize \/ ILock

\* the loading of the module, the callers from the moment the entry is
\* registered, and the unloading
NextLoad ==
    \/ Load
    \/ \E t \in Threads :
        \/ ReadCall(t, ConcReadArgs(t))
        \/ WriteCall(t, ConcWriteArgs(t))
        \/ Step(t)
    \/ Unload

SpecLoad == InitLoad /\ [][NextLoad]_vars

\* ======================================================================
\* The properties.  What a call returned is read off the state in which the
\* call is about to return: rd_end for a read (the shared lock still held),
\* wr_ret for a write.
\* ======================================================================

\* the logical concatenation, and where the chunks end in it
Content == Flat(Bufs(list))
ChunkEnds == { Len(Flat(SubSeq(Bufs(list), 1, i))) : i \in 1..Len(list) }
\* the end of the chunk whose range contains off
EndOfChunkAt(off) ==
    CHOOSE e \in ChunkEnds : e > off /\ \A f \in ChunkEnds : f > off => e <= f

AtReadEnd(t) == pc[t] = "rd_end" /\ InRead(t)
AtWriteRet(t) == pc[t] = "wr_ret" /\ InWrite(t)

\* the bytes an append stored: the part of the caller's buffer it counted
Payload(h) == Prefix(UserBuf(h.id, h.length), h.count)

\* the payloads of a set of appends in the order the calls were made
RECURSIVE InCallOrder(_)
InCallOrder(H) ==
    IF H = {} THEN << >>
    ELSE LET m == CHOOSE h \in H : \A g \in H : h.id <= g.id
         IN  << Payload(m) >> \o InCallOrder(H \ {m})

RECURSIVE SumCounts(_)
SumCounts(H) ==
    IF H = {} THEN 0
    ELSE LET m == CHOOSE h \in H : TRUE IN m.count + SumCounts(H \ {m})

\* C1: a read at an offset inside the stored range, with a length above 0
\* and a user buffer that takes all of it, returns the slice of the
\* concatenation that starts at the offset and stops at the length or at the
\* end of the chunk containing the offset, whichever comes first.
C1_ReadReturnsChunkSlice ==
    \A t \in Threads :
        (/\ AtReadEnd(t)
         /\ call[t].length > 0
         /\ 0 <= call[t].off /\ call[t].off < size
         /\ call[t].valid >= call[t].length)
        => LET off == call[t].off
               n == Min(call[t].length, EndOfChunkAt(off) - off)
           IN  /\ retval[t] = n
               /\ out[t] = SubSeq(Content, off + 1, off + n)

\* a read that starts inside the first of two chunks, asks for more than is
\* left of it, and gets only what is left of it
C1_Witness ==
    \E t \in Threads :
        /\ AtReadEnd(t)
        /\ Len(list) = 2
        /\ list[1].buf_size = 2
        /\ call[t].off = 1
        /\ call[t].length = 3
        /\ call[t].valid = 3
        /\ out[t] = << list[1].buf[2] >>

\* C3: a read with a negative offset and a length above 0 fails with
\* -EINVAL, returns no bytes and leaves the file position alone.
C3_NegativeReadOffsetIsEINVAL ==
    \A t \in Threads :
        (AtReadEnd(t) /\ call[t].off < 0 /\ call[t].length > 0)
        => /\ retval[t] = 0 - EINVAL
           /\ out[t] = << >>
           /\ offset[t] = call[t].off

\* C10: a read of length 0, or at an offset that is not negative and not
\* below the size, returns 0, copies nothing, leaves the file position where
\* it was, and no step of a read changes the list or the size.
C10_State ==
    \A t \in Threads :
        (/\ AtReadEnd(t)
         /\ \/ call[t].length = 0
            \/ (call[t].off >= 0 /\ call[t].off >= size))
        => /\ retval[t] = 0
           /\ out[t] = << >>
           /\ offset[t] = call[t].off

C10_Step ==
    \A t \in Threads :
        (InRead(t) /\ pc'[t] # pc[t]) => storev' = storev

C10_EmptyRead == []C10_State /\ [][C10_Step]_vars

\* a read of length 0 at an offset where there are bytes
C10_Witness ==
    \E t \in Threads :
        /\ AtReadEnd(t)
        /\ call[t].length = 0
        /\ 0 <= call[t].off /\ call[t].off < size
        /\ retval[t] = 0

\* C4: a write with a negative offset and a length above 0 fails with
\* -EINVAL; it holds no allocation, has not taken the lock, has not moved the
\* file position, and none of its steps changes the list, the size or the
\* lock.
C4_State ==
    \A t \in Threads :
        (AtWriteRet(t) /\ call[t].off < 0 /\ call[t].length > 0)
        => /\ retval[t] = 0 - EINVAL
           /\ alloc[t] = {}
           /\ new_entry[t] = NoEntry
           /\ ~took[t]
           /\ offset[t] = call[t].off

C4_Step ==
    \A t \in Threads :
        (/\ InWrite(t) /\ call[t].off < 0 /\ call[t].length > 0
         /\ pc'[t] # pc[t])
        => storev' = storev /\ lockv' = lockv

C4_NegativeWriteOffsetIsEINVAL == []C4_State /\ [][C4_Step]_vars

\* a write at offset -1 rejected while the list holds a chunk
C4_Witness ==
    \E t \in Threads :
        /\ AtWriteRet(t)
        /\ call[t].off = -1
        /\ call[t].length = MaxLen
        /\ retval[t] = 0 - EINVAL
        /\ list # << >>

\* C5: with the appends made one after another, the list holds the payloads
\* of the appends that returned a count, in the order of the calls, the size
\* is the sum of the counts, and the only change an append makes to the list
\* is one entry more at the tail.
C5_State ==
    (xpc = "live" /\ \A t \in Threads : ~InWrite(t))
    => /\ Bufs(list) = InCallOrder(hist)
       /\ size = SumCounts(hist)
       /\ \A i \in 1..Len(list) : list[i].buf_size = Len(list[i].buf)

C5_Step ==
    (xpc = "live" /\ list' # list)
    => /\ \E t \in Threads : pc[t] = "wr_link" /\ pc'[t] # pc[t]
       /\ Len(list') = Len(list) + 1
       /\ SubSeq(list', 1, Len(list)) = list

C5_AppendOrder == []C5_State /\ [][C5_Step]_vars

\* two appends of different sizes have returned
C5_Witness ==
    /\ xpc = "live"
    /\ \A t \in Threads : pc[t] = "idle"
    /\ Cardinality(hist) = 2
    /\ Len(list) = 2
    /\ list[1].buf_size = 1
    /\ list[2].buf_size = 2

\* C9: an append that meets a failed allocation or a transfer of no byte at
\* all returns -ENOMEM or -EFAULT holding no allocation, without having taken
\* the lock or moved the file position, and none of its steps changes the
\* list, the size or the lock.
Fails(c) ==
    c.op = "write" /\ c.length > 0 /\ c.off >= 0 /\ (c.mem < 3 \/ c.valid = 0)

C9_State ==
    \A t \in Threads :
        (AtWriteRet(t) /\ Fails(call[t]))
        => /\ retval[t] = IF call[t].mem >= 2 /\ call[t].valid = 0
                          THEN 0 - EFAULT ELSE 0 - ENOMEM
           /\ alloc[t] = {}
           /\ ~took[t]
           /\ offset[t] = call[t].off

C9_Step ==
    \A t \in Threads :
        (Fails(call[t]) /\ pc'[t] # pc[t])
        => storev' = storev /\ lockv' = lockv

C9_FailedAppendLeavesNothing == []C9_State /\ [][C9_Step]_vars

\* the allocation of the chunk buffer fails after the bytes were staged,
\* while the list holds a chunk
C9_Witness ==
    \E t \in Threads :
        /\ AtWriteRet(t)
        /\ call[t].mem = 2
        /\ call[t].valid = MaxLen
        /\ call[t].length = MaxLen
        /\ retval[t] = 0 - ENOMEM
        /\ list # << >>

\* who is inside which section of the lock, told from where the code is
WritersInside == { t \in Threads : pc[t] \in {"wr_link", "wr_size", "wr_unlock"} }
ReadersInside == { t \in Threads : pc[t] \in {"rd_body", "rd_end"} }
UnloadInside == xpc \in {"x_loop", "x_remove", "x_wait", "x_unlock"}
NoWriterInside == WritersInside = {} /\ ~UnloadInside

\* C2: whenever no writer is inside its exclusive section, and so whenever
\* a reader is inside its shared section, the size is the sum of buf_size
\* over the linked entries.
C2_SizeIsSumOfChunks ==
    /\ NoWriterInside => size = SumSizes(list)
    /\ ReadersInside # {} => size = SumSizes(list)

\* a reader inside its section sees two chunks and their sum
C2_Witness ==
    /\ ReadersInside # {}
    /\ Len(list) = 2
    /\ size = list[1].buf_size + list[2].buf_size
    /\ list[2].buf_size = 2

\* C6: no writer (an append linking its chunk, or the unloading) is inside
\* its exclusive section while a reader or another writer is inside its own.
C6_MutualExclusion ==
    /\ Cardinality(WritersInside) + (IF UnloadInside THEN 1 ELSE 0) <= 1
    /\ ~NoWriterInside => ReadersInside = {}

\* two readers inside their shared sections at once, an append waiting
C6_Witness ==
    /\ Cardinality(ReadersInside) >= 2
    /\ \E t \in Threads : pc[t] = "rd_body"
    /\ list # << >>

\* s is the start of q
IsPrefix(s, q) == Len(s) <= Len(q) /\ s = SubSeq(q, 1, Len(s))

\* C7: before the unloading, once the appends made so far, in whatever
\* interleaving, have all returned, the list holds each of their payloads whole in exactly one
\* entry and nothing else, the size is the sum of their lengths, and a
\* thread that reads on from offset 0 has the start of the concatenation, all
\* of it when its read returns 0.
C7_ConcurrentAppendsThenDrain ==
    /\ (xpc = "live" /\ \A t \in Threads : ~InWrite(t))
       => /\ Len(list) = Cardinality(hist)
          /\ \A h \in hist :
                Cardinality({ i \in 1..Len(list) : list[i].buf = Payload(h) }) = 1
          /\ size = SumCounts(hist)
    /\ \A t \in Threads :
          (xpc = "live" /\ WritersInside = {} /\ draining[t] /\ ~InWrite(t))
          => /\ IsPrefix(acc[t], Content)
             /\ offset[t] = Len(acc[t])
             /\ (AtReadEnd(t) /\ retval[t] = 0 /\ call[t].length > 0)
                => acc[t] = Content

\* NThreads appends were in progress together (the later call linked its
\* chunk first), all have returned, and a thread has read to the end
C7_Witness ==
    \E t \in Threads :
        /\ Cardinality(hist) = NThreads
        /\ Len(list) = NThreads
        /\ \A u \in Threads : ~InWrite(u)
        /\ list[1].buf = UserBuf(NThreads, Len(list[1].buf))
        /\ AtReadEnd(t)
        /\ retval[t] = 0
        /\ acc[t] = Content
        /\ Len(acc[t]) = size

\* C8: a reader inside its shared section sees every chunk whose append has
\* left its exclusive section, returned or not: the list is those chunks,
\* the size their total, and a read of a length above 0 at an offset inside
\* one of them returns bytes of it.
C8_VisibleAfterRelease ==
    \A t \in ReadersInside :
        /\ Bufs(list) = rel
        /\ size = Len(Flat(rel))
        /\ (/\ pc[t] = "rd_end"
            /\ call[t].length > 0
            /\ 0 <= call[t].off /\ call[t].off < Len(Flat(rel)))
           => /\ retval[t] >= 1
              /\ out[t] = SubSeq(Flat(rel), call[t].off + 1,
                                 call[t].off + retval[t])
              /\ \E i \in 1..Len(rel) : IsPrefix(out[t], rel[i])

\* a read returns the bytes of the second chunk while the append that stored
\* it has released the lock and not yet returned
C8_Witness ==
    \E t \in Threads, u \in Threads :
        /\ pc[t] = "rd_end"
        /\ pc[u] = "wr_ret"
        /\ retval[u] > 0
        /\ Len(rel) = 2
        /\ out[t] = rel[2]
        /\ out[t] = new_entry[u].buf

\* what the store holds while an append is about to return: the payloads of
\* the appends that returned before it, then the chunk it linked, if any
StoreAfter(linked) == InCallOrder(hist) \o linked

\* C11: an append of length 0 returns 0 whatever the offset is, negative or
\* not; it holds no allocation, has built no entry, has not taken the lock,
\* has not moved the file position, and the list and the size are what the
\* earlier appends left.
C11_EmptyAppend ==
    \A t \in Threads :
        (AtWriteRet(t) /\ call[t].length = 0)
        => /\ retval[t] = 0
           /\ alloc[t] = {}
           /\ new_entry[t] = NoEntry
           /\ ~took[t]
           /\ wlock # t
           /\ offset[t] = call[t].off
           /\ xpc = "live" => /\ Bufs(list) = StoreAfter(<< >>)
                              /\ size = SumCounts(hist)

\* an append of length 0 at a negative offset returns 0 while the list holds
\* a chunk
C11_Witness ==
    \E t \in Threads :
        /\ AtWriteRet(t)
        /\ call[t].length = 0
        /\ call[t].off = -1
        /\ call[t].mem = 0
        /\ retval[t] = 0
        /\ list # << >>

\* the start offsets that are not negative
StartOffsets == { a.off : a \in { b \in SeqWriteArgs(1) : b.off >= 0 } }

\* C12: what an append at an offset that is not negative returns and leaves
\* in the store is told by the bytes, the transfer and the allocations alone,
\* and is what the same append would have returned and stored at any other
\* such offset: the earlier chunks, then the new chunk at the tail.  Only the
\* file position depends on the offset.
C12_OffsetNotAPosition ==
    \A t \in Threads :
        (AtWriteRet(t) /\ call[t].length > 0 /\ call[t].off >= 0)
        => LET k == Min(call[t].length, call[t].valid)
               ok == call[t].mem >= 3 /\ k >= 1
               chunk == Prefix(UserBuf(call[t].id, call[t].length), k)
           IN  /\ retval[t] = IF ok THEN k
                              ELSE IF call[t].mem >= 2 /\ k = 0 THEN 0 - EFAULT
                              ELSE 0 - ENOMEM
               /\ xpc = "live"
                  => /\ Bufs(list) = StoreAfter(IF ok THEN << chunk >> ELSE << >>)
                     /\ size = SumCounts(hist) + (IF ok THEN k ELSE 0)
               /\ offset[t] = ToLoff(call[t].off + (IF ok THEN k ELSE 0))
               /\ \A o \in StartOffsets :
                    LET alt == Stage([call[t] EXCEPT !.off = o])
                    IN  /\ alt.done = ~ok
                        /\ alt.done => alt.ret = retval[t]
                        /\ ~alt.done => /\ alt.entry = new_entry[t]
                                        /\ alt.adv = retval[t]

\* an append at the largest offset there is stored its chunk behind the one
\* an append at offset 0 stored
C12_Witness ==
    \E t \in Threads :
        /\ AtWriteRet(t)
        /\ call[t].off = LoffMax
        /\ retval[t] = MaxLen
        /\ xpc = "live"
        /\ Len(list) = 2
        /\ list[2] = new_entry[t]
        /\ size = list[1].buf_size + MaxLen

\* C14: a read that has to_copy > 0 bytes to copy and gets d of them out
\* returns d and moves the file position by d when d >= 1, and fails with
\* -EFAULT, no byte returned, the file position not moved, when d = 0.  On
\* every read the file position moves by the count returned, by 0 when the
\* read returns 0 or an error.
C14_ReadTransferAndCursor ==
    \A t \in Threads :
        AtReadEnd(t)
        => /\ (call[t].length > 0 /\ 0 <= call[t].off /\ call[t].off < size)
              => LET off == call[t].off
                     to_copy == Min(call[t].length, EndOfChunkAt(off) - off)
                     d == Min(to_copy, call[t].valid)
                 IN  /\ to_copy > 0
                     /\ d >= 1 => /\ retval[t] = d
                                  /\ offset[t] = off + d
                                  /\ out[t] = SubSeq(Content, off + 1, off + d)
                     /\ d = 0 => /\ retval[t] = 0 - EFAULT
                                 /\ out[t] = << >>
                                 /\ offset[t] = off
           /\ offset[t] = call[t].off + (IF retval[t] > 0 THEN retval[t] ELSE 0)
           /\ Len(out[t]) = IF retval[t] > 0 THEN retval[t] ELSE 0

\* a read that had two bytes to copy and got one of them out
C14_Witness ==
    \E t \in Threads :
        /\ AtReadEnd(t)
        /\ list # << >>
        /\ list[1].buf_size = 2
        /\ call[t].off = 0
        /\ call[t].length = 2
        /\ call[t].valid = 1
        /\ retval[t] = 1
        /\ offset[t] = 1

\* C15: an append of n >= 1 bytes of which k, 1 <= k <= n, could be copied
\* in links one chunk of size k holding those k bytes, adds k to the size,
\* returns k and moves the file position by k (in loff_t arithmetic); and
\* every linked chunk has a size of 1 or more, the length of its buffer.
C15_PartialAppend ==
    /\ \A t \in Threads :
        (/\ AtWriteRet(t)
         /\ call[t].off >= 0
         /\ call[t].length >= 1
         /\ call[t].valid >= 1
         /\ call[t].mem >= 3)
        => LET k == Min(call[t].length, call[t].valid)
           IN  /\ retval[t] = k
               /\ offset[t] = ToLoff(call[t].off + k)
               /\ call[t].off + k <= LoffMax => offset[t] = call[t].off + k
               /\ xpc = "live"
                  => /\ Len(list) = Cardinality(hist) + 1
                     /\ list[Len(list)] =
                            [buf |-> Prefix(UserBuf(call[t].id, call[t].length), k),
                             buf_size |-> k]
                     /\ size = SumCounts(hist) + k
    /\ \A i \in 1..Len(list) :
        /\ list[i].buf_size >= 1
        /\ list[i].buf_size = Len(list[i].buf)

\* of the two bytes asked for one could be copied in: a chunk of one byte
\* behind a chunk of two
C15_Witness ==
    \E t \in Threads :
        /\ AtWriteRet(t)
        /\ call[t].length = 2
        /\ call[t].valid = 1
        /\ retval[t] = 1
        /\ xpc = "live"
        /\ Len(list) = 2
        /\ list[1].buf_size = 2
        /\ list[2].buf = << UserBuf(call[t].id, 2)[1] >>
        /\ size = 3

\* the unloading has ended its loop and reset the size
Cleared == xpc \in {"x_remove", "x_wait", "x_unlock", "unloaded"}

\* C16: the unloading does all of its work on the store with the lock held
\* for writing throughout; in its loop the list owns one entry and one buffer
\* per linked chunk; and once the loop and the reset are done, with no call in
\* progress, the list is empty, the size is 0, the list owns no allocation
\* and no caller holds one.
C16_TeardownReleasesAll ==
    /\ UnloadInside => wlock = Exiter
    /\ xpc = "x_loop" => heap = [entry |-> Len(list), buf |-> Len(list)]
    /\ (Cleared /\ \A t \in Threads : pc[t] = "idle")
       => /\ list = << >>
          /\ size = 0
          /\ heap = NoHeap
          /\ \A t \in Threads : alloc[t] = {}
    /\ xpc = "unloaded" => \A t \in Threads : pc[t] = "idle"

\* the module is unloaded after MaxWrites chunks were stored
C16_Witness ==
    /\ xpc = "unloaded"
    /\ wlock = NoOwner
    /\ Cardinality(hist) = MaxWrites
    /\ list = << >>
    /\ heap = NoHeap

\* C13: a read with the offset, the length and the transfer of the read the
\* thread made before it, no chunk linked in between, returns the same count
\* and the same bytes and leaves the file position where that read left it;
\* and no step of a read changes the list, the size or what the list owns.
C13_State ==
    \A t \in Threads :
        (AtReadEnd(t) /\ SameRead(last[t], call[t]))
        => /\ retval[t] = last[t].ret
           /\ out[t] = last[t].out
           /\ offset[t] = call[t].off + Len(last[t].out)

C13_Step ==
    \A t \in Threads :
        (InRead(t) \/ InRead(t)') /\ pc'[t] # pc[t]
        => list' = list /\ size' = size /\ heap' = heap

C13_ReadTwice == []C13_State /\ [][C13_Step]_vars

\* the second of two reads, inside the second chunk, that each return its
\* second byte
C13_Witness ==
    \E t \in Threads :
        /\ AtReadEnd(t)
        /\ SameRead(last[t], call[t])
        /\ call[t].off = 2
        /\ call[t].length = 2
        /\ call[t].valid = 2
        /\ Len(list) = 2
        /\ list[1].buf_size = 1
        /\ list[2].buf_size = 2
        /\ out[t] = << list[2].buf[2] >>
        /\ last[t].out = out[t]

\* init_proc_module has not finished
Initialising == xpc \in {"i_create", "i_list", "i_size", "i_lock"}

\* C17: while init_proc_module has not finished, the entry is not
\* registered, no read or write is in progress, and no chunk is linked or
\* counted that the rest of the initialisation could discard.
C17_InitBeforeUse ==
    Initialising
    => /\ ~exposed
       /\ \A t \in Threads : pc[t] = "idle"
       /\ list = << >>
       /\ size = 0

\* C18: from the moment the unloading has emptied the list and reset the
\* size, the list, the size and what the list owns never change again, so an
\* append that had staged its bytes and not yet taken the lock links nothing
\* after it; and once the unloading has released the lock the list is empty,
\* the size 0, nothing is owned by the list and no caller holds a chunk.
C18_State ==
    /\ Cleared => list = << >> /\ size = 0 /\ heap = NoHeap
    /\ xpc = "unloaded"
       => /\ wlock = NoOwner
          /\ \A t \in Threads : alloc[t] = {} /\ new_entry[t] = NoEntry

C18_Step == Cleared => (Cleared' /\ storev' = storev)

C19_State ==
    /\ WritersInside = {}
       => \A off \in 0..(size - 1), t \in Threads :
            LET loc == Locate(list, 1, ScanStart(t), off)
            IN  /\ loc.found
                /\ ReadSize(loc.next_pos, off, 1) >= 1
                /\ loc.next_pos <= size
    /\ \A t \in Threads :
        AtReadEnd(t)
        => /\ (/\ call[t].length > 0
               /\ call[t].valid >= 1
               /\ 0 <= call[t].off /\ call[t].off < size)
              => /\ retval[t] >= 1
                 /\ offset[t] = call[t].off + retval[t]
                 /\ offset[t] <= size
           /\ call[t].off = size => retval[t] = 0 /\ offset[t] = size

AtEndOfFile(t) ==
    /\ AtReadEnd(t)
    /\ call[t].length > 0
    /\ call[t].valid >= 1
    /\ call[t].off = size
    /\ retval[t] = 0
    /\ acc[t] = Content

C19_ReadProgress ==
    /\ []C19_State
    /\ \A t \in Threads : []<>AtEndOfFile(t)

\* a read returns 0 at the end of MaxWrites chunks, after the reads that
\* returned them one by one
C19_Witness ==
    \E t \in Threads :
        /\ AtEndOfFile(t)
        /\ Len(list) = MaxWrites
        /\ offset[t] = size
        /\ Len(acc[t]) = size
        /\ size > MaxWrites

\* C20: a thread holds the shared side of the lock exactly while it is
\* between read_lock and read_unlock and the exclusive side exactly while it
\* is between write_lock and write_unlock; no release happens twice; with no
\* call in progress the lock is free; and every call made comes to its
\* return.
C20_State ==
    /\ rlock = ReadersInside
    /\ \A t \in Threads : wlock = t <=> t \in WritersInside
    /\ wlock \in Threads \cup {NoOwner}
    /\ (\A t \in Threads : pc[t] = "idle") => wlock = NoOwner /\ rlock = {}

C20_LockBalanceAndCompletion ==
    /\ []C20_State
    /\ \A t \in Threads : (pc[t] # "idle") ~> (pc[t] = "idle")

\* a read that failed with -EFAULT is about to release the lock an append
\* waits for
C20_Witness ==
    /\ WriterWaits
    /\ list # << >>
    /\ \E t \in Threads :
         /\ pc[t] = "rd_end"
         /\ retval[t] = 0 - EFAULT
         /\ rlock = {t}

=============================================================================
